---------------------------- MODULE Spec2Model ----------------------------
(***************************************************************************)
(* A model of the adb-client library (alisaitteke/adb-client): the process *)
(* executor (utils.ts), the path resolver and the device client (adb.ts).  *)
(* Texts (command lines, stdout, stderr, paths) are TLA+ strings, read     *)
(* character by character with Len, Head, Tail and SubSeq.                 *)
(* An optional JavaScript value is <<>> (undefined) or <<v>>.              *)
(***************************************************************************)
EXTENDS Integers, Sequences, FiniteSets, TLC

VARIABLES
    host,           \* the machine: platform, environment variables, files that exist
    options,        \* the ADBOptions handed to the constructor
    adb,            \* the ADB object: construction state, adbPath, timeout
    existsChecked,  \* the paths handed to existsSync so far, in order
    call,           \* per caller slot: the operation in flight, the commands it has
                    \* issued (with what the executor raised, the text it
                    \* returned to a method that reads it, and how long the
                    \* process ran for each) and its outcome
    remote,         \* the device's files: remote path -> <<>> or <<writer>>
    local,          \* local files written by pull: the set of their paths
    fnIn,           \* input of the function studied on its own
    fnOut           \* its output, <<>> until it has been applied

vars == <<host, options, adb, existsChecked, call, remote, local, fnIn, fnOut>>

clientVars == <<host, options, adb, existsChecked, call, remote, local>>

(***************************************************************************)
(* Bounds of the model.                                                    *)
(***************************************************************************)
MaxCalls == 2       \* caller slots (operations that may be in flight at once)
MaxFiles == 1       \* how many of the paths of interest exist on the host
MaxOutLen == 3      \* length of an enumerated stdout text
MaxLines == 2       \* lines after the header of an enumerated device list

Calls == 1..MaxCalls

(***************************************************************************)
(* String helpers: what String.prototype.trim / includes / split do.       *)
(***************************************************************************)
IsSpace(ch) == ch \in {" ", "\t", "\n", "\r"}

RECURSIVE trimStart(_)
trimStart(s) == IF s # "" /\ IsSpace(Head(s)) THEN trimStart(Tail(s)) ELSE s

RECURSIVE trimEnd(_)
trimEnd(s) ==
    IF s # "" /\ IsSpace(SubSeq(s, Len(s), Len(s)))
    THEN trimEnd(SubSeq(s, 1, Len(s) - 1))
    ELSE s

trim(s) == trimEnd(trimStart(s))

includes(s, pat) ==
    \E i \in 1..(Len(s) - Len(pat) + 1) : SubSeq(s, i, i + Len(pat) - 1) = pat

\* All strings of at most n characters over the alphabet.
RECURSIVE Strs(_, _)
Strs(alphabet, n) ==
    IF n = 0 THEN {""}
    ELSE LET shorter == Strs(alphabet, n - 1)
         IN shorter \cup {s \o a : s \in shorter, a \in alphabet}

(***************************************************************************)
(* errors.ts                                                               *)
(***************************************************************************)
ADBError(message, code, command) ==
    [name |-> "ADBError", message |-> message, code |-> code, command |-> command]

CommandError(message, command) ==
    [ADBError(message, <<"COMMAND_FAILED">>, <<command>>) EXCEPT !.name = "CommandError"]

DeviceNotFoundError(serialNumber) ==
    [ADBError("Device not found: " \o serialNumber, <<>>, <<>>)
        EXCEPT !.name = "DeviceNotFoundError"]

NoError == [name |-> "", message |-> "", code |-> <<>>, command |-> <<>>]

(***************************************************************************)
(* utils.ts: the process executor.  A process behaviour p says what the    *)
(* external process does when left alone: how long it runs (ms), its exit  *)
(* code, and what it writes to stdout and stderr.                          *)
(***************************************************************************)
DefaultTimeout == 30000

\* promisify(child_process.exec) with { timeout }: the child is killed when it
\* outlives a positive timeout; a killed child or a nonzero exit code rejects
\* with Error("Command failed: <cmd>\n<stderr>").
execAsync(command, timeout, p) ==
    LET killed == timeout > 0 /\ p.dur > timeout
        failed == killed \/ p.exit # 0
    IN [rejected |-> failed,
        killed   |-> killed,
        message  |-> IF failed THEN "Command failed: " \o command \o "\n" \o p.stderr
                     ELSE "",
        stdout   |-> p.stdout,
        stderr   |-> p.stderr]

Resolved(value) == [ok |-> TRUE, value |-> value, error |-> NoError]
Rejected(error) == [ok |-> FALSE, value |-> "", error |-> error]

\* Variant: any stderr text fails the call, a warning included.
executeCommandNoWarningAllowance(command, timeout, p) ==
    LET r == execAsync(command, timeout, p)
    IN IF r.rejected THEN Rejected(CommandError(r.message, command))
       ELSE IF r.stderr # ""
            THEN Rejected(CommandError(r.stderr, command))
            ELSE Resolved(trim(r.stdout))

\* Variant: a killed process yields the stdout captured so far.
executeCommandPartialOnKill(command, timeout, p) ==
    LET r == execAsync(command, timeout, p)
    IN IF r.rejected /\ r.killed THEN Resolved(trim(r.stdout))
       ELSE IF r.rejected THEN Rejected(CommandError(r.message, command))
       ELSE IF r.stderr # "" /\ ~includes(r.stderr, "Warning")
            THEN Rejected(CommandError(r.stderr, command))
            ELSE Resolved(trim(r.stdout))

\* Variant: the stderr text is trimmed before it becomes the message.
executeCommandTrimmedMessage(command, timeout, p) ==
    LET r == execAsync(command, timeout, p)
    IN IF r.rejected THEN Rejected(CommandError(r.message, command))
       ELSE IF r.stderr # "" /\ ~includes(r.stderr, "Warning")
            THEN Rejected(CommandError(trim(r.stderr), command))
            ELSE Resolved(trim(r.stdout))

\* Variant: error text that says the device is missing is raised as
\* DeviceNotFoundError.
executeCommandDeviceNotFound(command, timeout, p) ==
    LET r == execAsync(command, timeout, p)
        classify(message) ==
            IF includes(message, "device") /\ includes(message, "not found")
            THEN Rejected(DeviceNotFoundError(command))
            ELSE Rejected(CommandError(message, command))
    IN IF r.rejected THEN classify(r.message)
       ELSE IF r.stderr # "" /\ ~includes(r.stderr, "Warning")
            THEN classify(r.stderr)
            ELSE Resolved(trim(r.stdout))

executeCommand(command, timeout, p) ==
    LET r == execAsync(command, timeout, p)
    IN IF r.rejected THEN Rejected(CommandError(r.message, command))
       ELSE IF r.stderr # "" /\ ~includes(r.stderr, "Warning")
            THEN Rejected(CommandError(r.stderr, command))
            ELSE Resolved(trim(r.stdout))

\* path.replace(/(\s+)/g, '\\$1'): one backslash before every maximal run of
\* whitespace.
RECURSIVE sanitizePathFrom(_, _)
sanitizePathFrom(path, prevSpace) ==
    IF path = "" THEN ""
    ELSE LET ch == Head(path)
         IN (IF IsSpace(ch) /\ ~prevSpace THEN "\\" ELSE "")
                \o ch \o sanitizePathFrom(Tail(path), IsSpace(ch))

sanitizePath(path) == sanitizePathFrom(path, FALSE)

(***************************************************************************)
(* adb.ts: the path resolver.                                              *)
(***************************************************************************)
RECURSIVE replaceChar(_, _, _)
replaceChar(s, from, to) ==
    IF s = "" THEN ""
    ELSE (IF Head(s) = from THEN to ELSE Head(s)) \o replaceChar(Tail(s), from, to)

\* path.join of two segments: an empty segment is dropped, the platform's
\* separator joins the rest (win32 also turns "/" into "\").
join(h, a, b) ==
    LET raw == IF a = "" THEN b ELSE IF b = "" THEN a ELSE a \o "/" \o b
    IN IF h.isWindows THEN replaceChar(raw, "/", "\\") ELSE raw

orEmpty(opt) == IF opt = <<>> THEN "" ELSE opt[1]

\* Variant: the path derived from ANDROID_HOME is tried before the well-known
\* locations.
getPotentialADBPathsEnvFirst(h) ==
    (IF h.ANDROID_HOME # <<>> /\ h.ANDROID_HOME[1] # ""
     THEN << join(h, join(h, h.ANDROID_HOME[1], "platform-tools"),
                  IF h.isWindows THEN "adb.exe" ELSE "adb") >>
     ELSE << >>)
    \o (IF h.isWindows
        THEN << join(h, orEmpty(h.LOCALAPPDATA), "Android/Sdk/platform-tools/adb.exe"),
                "C:\\Android\\sdk\\platform-tools\\adb.exe",
                join(h, h.home, "AppData/Local/Android/Sdk/platform-tools/adb.exe") >>
        ELSE << "/usr/local/bin/adb",
                "/usr/bin/adb",
                join(h, h.home, "Library/Android/sdk/platform-tools/adb"),
                join(h, h.home, "Android/Sdk/platform-tools/adb") >>)

getPotentialADBPaths(h) ==
    (IF h.isWindows
     THEN << join(h, orEmpty(h.LOCALAPPDATA), "Android/Sdk/platform-tools/adb.exe"),
             "C:\\Android\\sdk\\platform-tools\\adb.exe",
             join(h, h.home, "AppData/Local/Android/Sdk/platform-tools/adb.exe") >>
     ELSE << "/usr/local/bin/adb",
             "/usr/bin/adb",
             join(h, h.home, "Library/Android/sdk/platform-tools/adb"),
             join(h, h.home, "Android/Sdk/platform-tools/adb") >>)
    \o (IF h.ANDROID_HOME # <<>> /\ h.ANDROID_HOME[1] # ""
        THEN << join(h, join(h, h.ANDROID_HOME[1], "platform-tools"),
                     IF h.isWindows THEN "adb.exe" ELSE "adb") >>
        ELSE << >>)

\* paths.find(path => existsSync(path)): the index of the first candidate that
\* exists, 0 when none does.
RECURSIVE findIndex(_, _, _)
findIndex(paths, fs, i) ==
    IF i > Len(paths) THEN 0
    ELSE IF paths[i] \in fs THEN i
    ELSE findIndex(paths, fs, i + 1)

NotFoundMessage ==
    "ADB not found. Please ensure Android SDK is installed and properly configured."

\* Variant: the first candidate is returned without asking whether it exists.
findADBPathFirstCandidate(h) ==
    LET paths == getPotentialADBPaths(h)
    IN [found |-> TRUE, path |-> paths[1], checked |-> <<paths[1]>>, error |-> NoError]

\* The result of findADBPath on host h: the valid path or the thrown error, and
\* the existsSync calls made on the way.
findADBPath(h) ==
    LET paths == getPotentialADBPaths(h)
        i     == findIndex(paths, h.fs, 1)
    IN IF i = 0
       THEN [found |-> FALSE, path |-> "", checked |-> paths,
             error |-> ADBError(NotFoundMessage, <<>>, <<>>)]
       ELSE [found |-> TRUE, path |-> paths[i], checked |-> SubSeq(paths, 1, i),
             error |-> NoError]

Unconstructed == [state |-> "unconstructed", adbPath |-> "", timeout |-> 0, error |-> NoError]

\* Variant: the candidates are looked up even when customPath is given.
constructorAlwaysLooksUp(o, h) ==
    LET timeout == IF o.timeout # <<>> THEN o.timeout[1] ELSE DefaultTimeout
        r == findADBPath(h)
    IN IF r.found
       THEN [adb |-> [state |-> "constructed",
                      adbPath |-> IF o.customPath # <<>> THEN o.customPath[1] ELSE r.path,
                      timeout |-> timeout, error |-> NoError],
             checked |-> r.checked]
       ELSE [adb |-> [state |-> "threw", adbPath |-> "", timeout |-> timeout,
                      error |-> r.error],
             checked |-> r.checked]

\* Variant: a supplied timeout is added to the default instead of replacing it.
constructorTimeoutAdded(o, h) ==
    LET timeout == IF o.timeout # <<>> THEN DefaultTimeout + o.timeout[1] ELSE DefaultTimeout
    IN IF o.customPath # <<>>
       THEN [adb |-> [state |-> "constructed", adbPath |-> o.customPath[1],
                      timeout |-> timeout, error |-> NoError],
             checked |-> << >>]
       ELSE LET r == findADBPath(h)
            IN IF r.found
               THEN [adb |-> [state |-> "constructed", adbPath |-> r.path,
                              timeout |-> timeout, error |-> NoError],
                     checked |-> r.checked]
               ELSE [adb |-> [state |-> "threw", adbPath |-> "", timeout |-> timeout,
                              error |-> r.error],
                     checked |-> r.checked]

\* new ADB(options): the object's fields after the constructor, or the error it
\* threw, and the existsSync calls it made.
constructor(o, h) ==
    LET timeout == IF o.timeout # <<>> THEN o.timeout[1] ELSE DefaultTimeout
    IN IF o.customPath # <<>>
       THEN [adb |-> [state |-> "constructed", adbPath |-> o.customPath[1],
                      timeout |-> timeout, error |-> NoError],
             checked |-> << >>]
       ELSE LET r == findADBPath(h)
            IN IF r.found
               THEN [adb |-> [state |-> "constructed", adbPath |-> r.path,
                              timeout |-> timeout, error |-> NoError],
                     checked |-> r.checked]
               ELSE [adb |-> [state |-> "threw", adbPath |-> "", timeout |-> timeout,
                              error |-> r.error],
                     checked |-> r.checked]

\* Variant: the default timeout is passed instead of the configured one.
executeWithDefaultTimeout(a, command) ==
    [command |-> "\"" \o a.adbPath \o "\" " \o command, timeout |-> DefaultTimeout]

\* ADB.execute(command): the command line and timeout handed to executeCommand.
execute(a, command) ==
    [command |-> "\"" \o a.adbPath \o "\" " \o command, timeout |-> a.timeout]

(***************************************************************************)
(* adb.ts: the operations.  Each is the sequence of command strings it     *)
(* hands to execute, one await after the other.                            *)
(***************************************************************************)
BaseArgs ==
    [serialNumber |-> "emulator-5554", path |-> "", name |-> "", activity |-> "",
     enable |-> FALSE, timeLimit |-> <<>>, size |-> <<>>, bitRate |-> <<>>]

ScreenshotTemp == "/sdcard/screenshot.png"
RecordingTemp == "/sdcard/recording.mp4"

getDevices == << "devices -l" >>

installAPK(serialNumber, apkPath) ==
    << "-s " \o serialNumber \o " install \"" \o sanitizePath(apkPath) \o "\"" >>

uninstallApp(serialNumber, packageName) ==
    << "-s " \o serialNumber \o " uninstall " \o packageName >>

startApp(serialNumber, packageName, activity) ==
    << "-s " \o serialNumber \o " shell am start -n " \o packageName \o "/" \o activity >>

stopApp(serialNumber, packageName) ==
    << "-s " \o serialNumber \o " shell am force-stop " \o packageName >>

getPackageInfo(serialNumber, packageName) ==
    << "-s " \o serialNumber \o " shell dumpsys package " \o packageName >>

\* Variant: the remote file is removed before it is pulled.
takeScreenshotCleanupFirst(serialNumber, outputPath) ==
    << "-s " \o serialNumber \o " shell screencap -p " \o ScreenshotTemp,
       "-s " \o serialNumber \o " shell rm " \o ScreenshotTemp,
       "-s " \o serialNumber \o " pull " \o ScreenshotTemp \o " \""
            \o sanitizePath(outputPath) \o "\"" >>

takeScreenshot(serialNumber, outputPath) ==
    << "-s " \o serialNumber \o " shell screencap -p " \o ScreenshotTemp,
       "-s " \o serialNumber \o " pull " \o ScreenshotTemp \o " \""
            \o sanitizePath(outputPath) \o "\"",
       "-s " \o serialNumber \o " shell rm " \o ScreenshotTemp >>

shell(serialNumber, command) ==
    << "-s " \o serialNumber \o " shell " \o command >>

\* Variant: the server is started before the old one is killed.
restartServerStartFirst == << "start-server", "kill-server" >>

restartServer == << "kill-server", "start-server" >>

getBatteryInfo(serialNumber) ==
    << "-s " \o serialNumber \o " shell dumpsys battery" >>

recordScreen(serialNumber, outputPath, timeLimit, size, bitRate) ==
    LET sizeOpt == IF size # <<>> /\ size[1] # "" THEN "--size " \o size[1] ELSE ""
        bitRateOpt == IF bitRate # <<>> /\ bitRate[1] # ""
                      THEN "--bit-rate " \o bitRate[1] ELSE ""
        timeLimitOpt == IF timeLimit # <<>> /\ timeLimit[1] # 0
                        THEN "--time-limit " \o ToString(timeLimit[1]) ELSE ""
    IN << "-s " \o serialNumber \o " shell screenrecord " \o sizeOpt \o " " \o bitRateOpt
               \o " " \o timeLimitOpt \o " " \o RecordingTemp,
          "-s " \o serialNumber \o " pull " \o RecordingTemp \o " \""
               \o sanitizePath(outputPath) \o "\"",
          "-s " \o serialNumber \o " shell rm " \o RecordingTemp >>

sendKeyEvent(serialNumber, keycode) ==
    << "-s " \o serialNumber \o " shell input keyevent " \o keycode >>

clearAppData(serialNumber, packageName) ==
    << "-s " \o serialNumber \o " shell pm clear " \o packageName >>

getDeviceProperties(serialNumber) ==
    << "-s " \o serialNumber \o " shell getprop" >>

getNetworkInfo(serialNumber) ==
    << "-s " \o serialNumber \o " shell ip addr show",
       "-s " \o serialNumber \o " shell dumpsys wifi" >>

setWifiEnabled(serialNumber, enable) ==
    << "-s " \o serialNumber \o " shell svc wifi "
            \o (IF enable THEN "enable" ELSE "disable") >>

\* Variant: the report is captured on the device, pulled and removed.
takeBugReportComposite(serialNumber, outputPath) ==
    << "-s " \o serialNumber \o " shell bugreportz -o /sdcard/bugreport.zip",
       "-s " \o serialNumber \o " pull /sdcard/bugreport.zip \""
            \o sanitizePath(outputPath) \o "\"",
       "-s " \o serialNumber \o " shell rm /sdcard/bugreport.zip" >>

takeBugReport(serialNumber, outputPath) ==
    << "-s " \o serialNumber \o " bugreport \"" \o sanitizePath(outputPath) \o "\"" >>

(***************************************************************************)
(* adb.ts: parsing the output of 'devices -l'.                             *)
(***************************************************************************)
CharAt(s, i) == SubSeq(s, i, i)

\* The j-th smallest element of a set of numbers.
Nth(S, j) == CHOOSE x \in S : Cardinality({y \in S : y < x}) = j - 1

\* String.prototype.split on a one-character separator: the pieces between
\* consecutive separators, the empty ones included.
split(s, sep) ==
    LET n    == Len(s)
        seps == {i \in 1..n : CharAt(s, i) = sep}
        k    == Cardinality(seps)
        at(j) == IF j = 0 THEN 0 ELSE IF j = k + 1 THEN n + 1 ELSE Nth(seps, j)
    IN [j \in 1..(k + 1) |-> SubSeq(s, at(j - 1) + 1, at(j) - 1)]

\* line.split(/\s+/).filter(Boolean): the maximal runs of non-whitespace.
tokens(line) ==
    LET n      == Len(line)
        inTok(i) == i \in 1..n /\ ~IsSpace(CharAt(line, i))
        starts == {i \in 1..n : inTok(i) /\ ~inTok(i - 1)}
        ends   == {i \in 1..n : inTok(i) /\ ~inTok(i + 1)}
    IN [j \in 1..Cardinality(starts) |-> SubSeq(line, Nth(starts, j), Nth(ends, j))]

\* rest.forEach(item => ...): model and product from the key:value items.
\* Variant: the device: token stands in for a missing product.
RECURSIVE forEachItemDeviceAsProduct(_, _)
forEachItemDeviceAsProduct(info, rest) ==
    IF rest = << >> THEN info
    ELSE LET parts == split(rest[1], ":")
             key   == parts[1]
             value == IF Len(parts) >= 2 THEN << parts[2] >> ELSE << >>
             next  == IF key = "model" THEN [info EXCEPT !.model = value]
                      ELSE IF key = "product" THEN [info EXCEPT !.product = value]
                      ELSE IF key = "device" /\ info.product = << >>
                           THEN [info EXCEPT !.product = value]
                      ELSE info
         IN forEachItemDeviceAsProduct(next, Tail(rest))

RECURSIVE forEachItem(_, _)
forEachItem(info, rest) ==
    IF rest = << >> THEN info
    ELSE LET parts == split(rest[1], ":")
             key   == parts[1]
             value == IF Len(parts) >= 2 THEN << parts[2] >> ELSE << >>
             next  == IF key = "model" THEN [info EXCEPT !.model = value]
                      ELSE IF key = "product" THEN [info EXCEPT !.product = value]
                      ELSE info
         IN forEachItem(next, Tail(rest))

\* The DeviceInfo of one non-blank line.
deviceInfo(line) ==
    LET toks == tokens(line)
        rest == Tail(toks)
    IN forEachItem([serialNumber |-> toks[1],
                    state   |-> IF rest = << >> THEN << >> ELSE << rest[1] >>,
                    model   |-> << >>,
                    product |-> << >>],
                   rest)

NonBlank(line) == trim(line) # ""

\* The value getDevices resolves with, given the text execute returned.
getDevicesResult(output) ==
    LET all   == split(output, "\n")
        lines == SubSeq(all, 2, Len(all))
        kept  == SelectSeq(lines, NonBlank)
    IN [i \in 1..Len(kept) |-> deviceInfo(kept[i])]

Ops ==
    {"getDevices", "installAPK", "uninstallApp", "startApp", "stopApp",
     "getPackageInfo", "takeScreenshot", "shell", "restartServer", "getBatteryInfo",
     "recordScreen", "sendKeyEvent", "clearAppData", "getDeviceProperties",
     "getNetworkInfo", "setWifiEnabled", "takeBugReport"}

\* The commands of operation op called with arguments a.
Commands(op, a) ==
    CASE op = "getDevices"          -> getDevices
      [] op = "installAPK"          -> installAPK(a.serialNumber, a.path)
      [] op = "uninstallApp"        -> uninstallApp(a.serialNumber, a.name)
      [] op = "startApp"            -> startApp(a.serialNumber, a.name, a.activity)
      [] op = "stopApp"             -> stopApp(a.serialNumber, a.name)
      [] op = "getPackageInfo"      -> getPackageInfo(a.serialNumber, a.name)
      [] op = "takeScreenshot"      -> takeScreenshot(a.serialNumber, a.path)
      [] op = "shell"               -> shell(a.serialNumber, a.name)
      [] op = "restartServer"       -> restartServer
      [] op = "getBatteryInfo"      -> getBatteryInfo(a.serialNumber)
      [] op = "recordScreen"        ->
            recordScreen(a.serialNumber, a.path, a.timeLimit, a.size, a.bitRate)
      [] op = "sendKeyEvent"        -> sendKeyEvent(a.serialNumber, a.name)
      [] op = "clearAppData"        -> clearAppData(a.serialNumber, a.name)
      [] op = "getDeviceProperties" -> getDeviceProperties(a.serialNumber)
      [] op = "getNetworkInfo"      -> getNetworkInfo(a.serialNumber)
      [] op = "setWifiEnabled"      -> setWifiEnabled(a.serialNumber, a.enable)
      [] op = "takeBugReport"       -> takeBugReport(a.serialNumber, a.path)

\* The arguments the callers of the model pass.
ArgChoices(op) ==
    CASE op \in {"installAPK"} -> {[BaseArgs EXCEPT !.path = "my app.apk"]}
      [] op \in {"uninstallApp", "stopApp", "getPackageInfo", "clearAppData"} ->
            {[BaseArgs EXCEPT !.name = "com.example.app"]}
      [] op = "startApp" ->
            {[BaseArgs EXCEPT !.name = "com.example.app", !.activity = ".MainActivity"]}
      [] op = "takeScreenshot" ->
            {[BaseArgs EXCEPT !.path = "my shot.png"]}
      [] op = "shell" -> {[BaseArgs EXCEPT !.name = "ls /sdcard"]}
      [] op = "recordScreen" ->
            {[BaseArgs EXCEPT !.path = "video.mp4"],
             [BaseArgs EXCEPT !.path = "video.mp4", !.timeLimit = <<10>>,
                              !.size = <<"720x1280">>, !.bitRate = <<"4M">>]}
      [] op = "sendKeyEvent" -> {[BaseArgs EXCEPT !.name = "KEYCODE_HOME"]}
      [] op = "setWifiEnabled" -> {[BaseArgs EXCEPT !.enable = e] : e \in BOOLEAN}
      [] op = "takeBugReport" -> {[BaseArgs EXCEPT !.path = "bugreport.zip"]}
      [] OTHER -> {BaseArgs}

(***************************************************************************)
(* The external tool and the device, as far as the operations touch them.  *)
(***************************************************************************)
RemotePaths == {ScreenshotTemp, RecordingTemp}

\* What step k of operation op does on the device.
DeviceStep(op, a, k) ==
    LET temp == IF op = "takeScreenshot" THEN ScreenshotTemp ELSE RecordingTemp
        kinds == << "capture", "pull", "rm" >>
    IN IF op \in {"takeScreenshot", "recordScreen"}
       THEN [kind |-> kinds[k], remotePath |-> temp, localPath |-> sanitizePath(a.path)]
       ELSE [kind |-> "other", remotePath |-> "", localPath |-> ""]

Durations == {100, 20000, 40000}

ProcBehaviours ==
    [dur : Durations, exit : {0, 1},
     stdout : {"", " out\n"},
     stderr : {"", "Warning: slow transport", "error: device offline",
               "error: device 'emulator-5554' not found"}]

BinaryMissing ==
    [dur |-> 100, exit |-> 127, stdout |-> "", stderr |-> "sh: adb: not found"]

\* The behaviours the process of call record cl's running step can show.
Behaviours(cl) ==
    LET k == Len(cl.issued)
        d == DeviceStep(cl.op, cl.args, k)
    IN IF adb.adbPath \notin host.fs THEN {BinaryMissing}
       ELSE {p \in ProcBehaviours :
                (d.kind \in {"pull", "rm"} /\ remote[d.remotePath] = <<>>) => p.exit # 0}

\* An undisturbed process that exits 0 has done its work on the device.
Worked(timeout, p) == p.exit = 0 /\ ~(timeout > 0 /\ p.dur > timeout)

IdleCall ==
    [status |-> "idle", op |-> "", args |-> BaseArgs, issued |-> <<>>,
     outputs |-> <<>>, error |-> NoError]

\* The operations that use the text their commands return; the others await the
\* command and drop its value.
ValueOps ==
    {"getDevices", "getPackageInfo", "shell", "getBatteryInfo", "getDeviceProperties",
     "getNetworkInfo"}

\* Variant: the client remembers the first text it read and serves it again
\* instead of the text of the command just run.
KeepCached(op, outputs, value) ==
    IF op \in ValueOps
    THEN Append(outputs, IF outputs # << >> THEN outputs[1] ELSE value)
    ELSE outputs

Keep(op, outputs, value) == IF op \in ValueOps THEN Append(outputs, value) ELSE outputs

Issue(a, command) ==
    LET x == execute(a, command)
    IN [command |-> x.command, timeout |-> x.timeout, outcome |-> "running",
        raised |-> NoError, returned |-> << >>, ran |-> 0]

\* How long the child of a step runs: to its end, or to the kill at the timeout.
RunTime(timeout, p) == IF timeout > 0 /\ p.dur > timeout THEN timeout ELSE p.dur

\* The time the processes of call record cl have run so far, one after another.
RECURSIVE SumRan(_, _)
SumRan(issued, n) == IF n = 0 THEN 0 ELSE issued[n].ran + SumRan(issued, n - 1)

Elapsed(cl) == SumRan(cl.issued, Len(cl.issued))

\* Variant: the operation has one deadline; each further step gets the time
\* that is left of it.
awaitSharedDeadline(cl, r) ==
    LET k    == Len(cl.issued)
        cmds == Commands(cl.op, cl.args)
        left == IF adb.timeout > Elapsed(cl) THEN adb.timeout - Elapsed(cl) ELSE 1
    IN IF ~r.ok
       THEN [cl EXCEPT !.status = "rejected", !.error = r.error,
                       !.issued[k].outcome = "failed"]
       ELSE IF k < Len(cmds)
            THEN [cl EXCEPT !.issued = Append([@ EXCEPT ![k].outcome = "ok"],
                                              [Issue(adb, cmds[k + 1]) EXCEPT !.timeout = left]),
                            !.outputs = Keep(cl.op, @, r.value)]
            ELSE [cl EXCEPT !.status = "resolved", !.issued[k].outcome = "ok",
                            !.outputs = Keep(cl.op, @, r.value)]

\* Variant: a failed step is followed by the cleanup command (try/finally).
awaitCleanupOnFailure(cl, r) ==
    LET k    == Len(cl.issued)
        cmds == Commands(cl.op, cl.args)
    IN IF ~r.ok
       THEN IF k < Len(cmds)
            THEN [cl EXCEPT !.issued = Append([@ EXCEPT ![k].outcome = "failed"],
                                              Issue(adb, cmds[Len(cmds)])),
                            !.error = r.error]
            ELSE [cl EXCEPT !.status = "rejected", !.error = r.error,
                            !.issued[k].outcome = "failed"]
       ELSE IF cl.error # NoError
            THEN [cl EXCEPT !.status = "rejected", !.issued[k].outcome = "ok"]
       ELSE IF k < Len(cmds)
            THEN [cl EXCEPT !.issued = Append([@ EXCEPT ![k].outcome = "ok"],
                                              Issue(adb, cmds[k + 1])),
                            !.outputs = Keep(cl.op, @, r.value)]
            ELSE [cl EXCEPT !.status = "resolved", !.issued[k].outcome = "ok",
                            !.outputs = Keep(cl.op, @, r.value)]

\* Variant: a failed command is issued once more before the method gives up.
awaitRetryOnce(cl, r) ==
    LET k    == Len(cl.issued)
        cmds == Commands(cl.op, cl.args)
        done == Cardinality({i \in 1..k : cl.issued[i].outcome = "ok"})
    IN IF ~r.ok
       THEN IF k = done + 1
            THEN [cl EXCEPT !.issued = Append([@ EXCEPT ![k].outcome = "failed"],
                                              Issue(adb, cmds[done + 1]))]
            ELSE [cl EXCEPT !.status = "rejected", !.error = r.error,
                            !.issued[k].outcome = "failed"]
       ELSE IF done + 1 < Len(cmds)
            THEN [cl EXCEPT !.issued = Append([@ EXCEPT ![k].outcome = "ok"],
                                              Issue(adb, cmds[done + 2])),
                            !.outputs = Keep(cl.op, @, r.value)]
            ELSE [cl EXCEPT !.status = "resolved", !.issued[k].outcome = "ok",
                            !.outputs = Keep(cl.op, @, r.value)]

\* Variant: once the first command has succeeded, the remaining commands are
\* started together (Promise.all) instead of one after the other.
awaitRestTogether(cl, r) ==
    LET k    == Len(cl.issued)
        cmds == Commands(cl.op, cl.args)
    IN IF ~r.ok
       THEN [cl EXCEPT !.status = "rejected", !.error = r.error,
                       !.issued[k].outcome = "failed"]
       ELSE IF k < Len(cmds)
            THEN [cl EXCEPT !.issued = [@ EXCEPT ![k].outcome = "ok"]
                                \o [i \in 1..(Len(cmds) - k) |-> Issue(adb, cmds[k + i])],
                            !.outputs = Keep(cl.op, @, r.value)]
            ELSE [cl EXCEPT !.status = "resolved", !.issued[k].outcome = "ok",
                            !.outputs = Keep(cl.op, @, r.value)]

\* Variant: a failed command is caught and its output taken to be empty, so
\* the parsers fall back to their defaults.
awaitDefaultOnFailure(cl, r) ==
    LET k    == Len(cl.issued)
        cmds == Commands(cl.op, cl.args)
        how  == IF r.ok THEN "ok" ELSE "failed"
    IN IF k < Len(cmds)
       THEN [cl EXCEPT !.issued = Append([@ EXCEPT ![k].outcome = how],
                                         Issue(adb, cmds[k + 1])),
                       !.outputs = Keep(cl.op, @, r.value)]
       ELSE [cl EXCEPT !.status = "resolved", !.issued[k].outcome = how,
                       !.outputs = Keep(cl.op, @, r.value)]

\* Variant: a failure of the last command of a multi-command operation (the
\* cleanup) is swallowed.
awaitCleanupBestEffort(cl, r) ==
    LET k    == Len(cl.issued)
        cmds == Commands(cl.op, cl.args)
    IN IF ~r.ok /\ ~(k = Len(cmds) /\ k > 1)
       THEN [cl EXCEPT !.status = "rejected", !.error = r.error,
                       !.issued[k].outcome = "failed"]
       ELSE IF k < Len(cmds)
            THEN [cl EXCEPT !.issued = Append([@ EXCEPT ![k].outcome = "ok"],
                                              Issue(adb, cmds[k + 1])),
                            !.outputs = Keep(cl.op, @, r.value)]
            ELSE [cl EXCEPT !.status = "resolved",
                            !.issued[k].outcome = IF r.ok THEN "ok" ELSE "failed",
                            !.outputs = Keep(cl.op, @, r.value)]

\* What an operation does when the command it awaits settles with r: a
\* rejection leaves the async method at once with that error; a value makes it
\* issue its next command, or resolve after the last one.
await(cl, r) ==
    LET k    == Len(cl.issued)
        cmds == Commands(cl.op, cl.args)
    IN IF ~r.ok
       THEN [cl EXCEPT !.status = "rejected", !.error = r.error,
                       !.issued[k].outcome = "failed"]
       ELSE IF k < Len(cmds)
            THEN [cl EXCEPT !.issued = Append([@ EXCEPT ![k].outcome = "ok"],
                                              Issue(adb, cmds[k + 1])),
                            !.outputs = Keep(cl.op, @, r.value)]
            ELSE [cl EXCEPT !.status = "resolved", !.issued[k].outcome = "ok",
                            !.outputs = Keep(cl.op, @, r.value)]

(***************************************************************************)
(* The client's state machine.                                             *)
(***************************************************************************)
OptionChoices ==
    [customPath : {<<>>, <<"mock-adb">>, <<"/opt/tools/adb">>},
     timeout : {<<>>, <<5000>>}]

PlatformChoices ==
    {[isWindows |-> FALSE, LOCALAPPDATA |-> <<>>, ANDROID_HOME |-> ah,
      home |-> "/home/dev", fs |-> {}] : ah \in {<<>>, <<"/opt/android-sdk">>}}
    \cup
    {[isWindows |-> TRUE, LOCALAPPDATA |-> <<"C:\\Users\\dev\\AppData\\Local">>,
      ANDROID_HOME |-> ah, home |-> "C:\\Users\\dev", fs |-> {}] :
        ah \in {<<>>, <<"D:\\android-sdk">>}}

Range(f) == {f[i] : i \in DOMAIN f}

\* Hosts: a platform and at most MaxFiles existing files among the candidate
\* locations and one custom location.
Hosts ==
    UNION {{[h EXCEPT !.fs = f] :
              f \in {g \in SUBSET (Range(getPotentialADBPaths(h)) \cup {"/opt/tools/adb"}) :
                       Cardinality(g) <= MaxFiles}} :
           h \in PlatformChoices}

Init ==
    /\ host \in Hosts
    /\ options \in OptionChoices
    /\ adb = Unconstructed
    /\ existsChecked = << >>
    /\ call = [c \in Calls |-> IdleCall]
    /\ remote = [q \in RemotePaths |-> << >>]
    /\ local = {}
    /\ fnIn = << >>
    /\ fnOut = << >>

\* new ADB(options)
Construct ==
    /\ adb.state = "unconstructed"
    /\ LET r == constructor(options, host)
       IN /\ adb' = r.adb
          /\ existsChecked' = existsChecked \o r.checked
    /\ UNCHANGED <<host, options, call, remote, local, fnIn, fnOut>>

\* A caller invokes operation op: the method runs up to its first await.
Invoke(c, op, a) ==
    /\ adb.state = "constructed"
    /\ call[c].status = "idle"
    /\ call' = [call EXCEPT ![c] =
                   [IdleCall EXCEPT !.status = "pending", !.op = op, !.args = a,
                                    !.issued = << Issue(adb, Commands(op, a)[1]) >>]]
    /\ UNCHANGED <<host, options, adb, existsChecked, remote, local, fnIn, fnOut>>

\* The process of call c's running command ends (or is killed at the timeout);
\* executeCommand settles and the operation continues from its await.
ProcessEnds(c, p) ==
    /\ call[c].status = "pending"
    /\ p \in Behaviours(call[c])
    /\ LET cl  == call[c]
           k   == Len(cl.issued)
           cur == cl.issued[k]
           d   == DeviceStep(cl.op, cl.args, k)
           w   == Worked(cur.timeout, p)
           r   == executeCommand(cur.command, cur.timeout, p)
           got == IF r.ok /\ cl.op \in ValueOps THEN << r.value >> ELSE << >>
           end == [cur EXCEPT !.raised = r.error, !.returned = got,
                              !.ran = RunTime(cur.timeout, p)]
       IN /\ call' = [call EXCEPT ![c] = await([cl EXCEPT !.issued[k] = end], r)]
          /\ remote' = IF w /\ d.kind = "capture"
                       THEN [remote EXCEPT ![d.remotePath] = <<c>>]
                       ELSE IF w /\ d.kind = "rm"
                       THEN [remote EXCEPT ![d.remotePath] = << >>]
                       ELSE remote
          /\ local' = IF w /\ d.kind = "pull"
                      THEN {f \in local : f.path # d.localPath}
                           \cup {[path |-> d.localPath, content |-> remote[d.remotePath][1]]}
                      ELSE local
    /\ UNCHANGED <<host, options, adb, existsChecked, fnIn, fnOut>>

\* The caller takes the settled promise's outcome; the slot is free again.
Settle(c) ==
    /\ call[c].status \in {"resolved", "rejected"}
    /\ call' = [call EXCEPT ![c] = IdleCall]
    /\ UNCHANGED <<host, options, adb, existsChecked, remote, local, fnIn, fnOut>>

\* One caller that awaits each operation before it starts the next.
Next ==
    \/ Construct
    \/ \E op \in Ops : \E a \in ArgChoices(op) : Invoke(1, op, a)
    \/ \E p \in ProcBehaviours \cup {BinaryMissing} : ProcessEnds(1, p)
    \/ Settle(1)

Spec == Init /\ [][Next]_vars

(***************************************************************************)
(* Properties of the client.                                               *)
(***************************************************************************)
CommandLine(command) == "\"" \o adb.adbPath \o "\" " \o command

ScreenshotSteps(a) ==
    << "-s " \o a.serialNumber \o " shell screencap -p /sdcard/screenshot.png",
       "-s " \o a.serialNumber \o " pull /sdcard/screenshot.png \""
            \o sanitizePath(a.path) \o "\"",
       "-s " \o a.serialNumber \o " shell rm /sdcard/screenshot.png" >>

\* C1: takeScreenshot issues capture, pull, rm in this order; a step is issued
\* only after the step before it has completed successfully.
C1_ScreenshotOrder ==
    \A c \in Calls :
        call[c].op = "takeScreenshot" =>
            LET iss == call[c].issued
            IN /\ Len(iss) \in 1..3
               /\ \A i \in 1..Len(iss) :
                    /\ iss[i].command = CommandLine(ScreenshotSteps(call[c].args)[i])
                    /\ i > 1 => iss[i - 1].outcome = "ok"

C1_Witness ==
    \E c \in Calls :
        /\ call[c].op = "takeScreenshot"
        /\ call[c].status = "resolved"
        /\ Len(call[c].issued) = 3
        /\ call[c].issued[3].outcome = "ok"

\* C2: when the pull of takeScreenshot fails after a successful capture, the
\* operation rejects with the pull step's error (its command is the pull command
\* line), rm is never issued, and the remote temporary file still exists.
C2_PullFailure ==
    \A c \in Calls :
        (/\ call[c].op = "takeScreenshot"
         /\ Len(call[c].issued) >= 2
         /\ call[c].issued[2].outcome = "failed") =>
            /\ call[c].status = "rejected"
            /\ call[c].error.name = "CommandError"
            /\ call[c].error.command = << CommandLine(ScreenshotSteps(call[c].args)[2]) >>
            /\ call[c].error = call[c].issued[2].raised
            /\ Len(call[c].issued) = 2
            /\ remote["/sdcard/screenshot.png"] # << >>

C2_Witness ==
    \E c \in Calls :
        /\ call[c].op = "takeScreenshot"
        /\ call[c].status = "rejected"
        /\ Len(call[c].issued) = 2
        /\ call[c].issued[1].outcome = "ok"
        /\ call[c].issued[2].outcome = "failed"
        /\ remote["/sdcard/screenshot.png"] # << >>

NoCandidateExists == Range(getPotentialADBPaths(host)) \cap host.fs = {}

\* C4: constructing with no explicit path when no candidate location exists
\* throws an ADBError ('ADB not found ...'); there is no client object, and no
\* command has been issued.
C4_NotFoundThrows ==
    (adb.state # "unconstructed" /\ options.customPath = << >> /\ NoCandidateExists) =>
        /\ adb.state = "threw"
        /\ adb.error.name = "ADBError"
        /\ includes(adb.error.message, "not found")
        /\ \A c \in Calls : call[c] = IdleCall

C4_Witness ==
    /\ adb.state = "threw"
    /\ options.customPath = << >>
    /\ NoCandidateExists
    /\ host.fs # {}

\* C5: with an explicit path construction succeeds and uses it verbatim, with no
\* existence check and no candidate lookup, whether or not the path exists; a
\* path that does not exist shows only as the command failure of an operation.
C5_CustomPathVerbatim ==
    (adb.state # "unconstructed" /\ options.customPath # << >>) =>
        /\ adb.state = "constructed"
        /\ adb.adbPath = options.customPath[1]
        /\ existsChecked = << >>
        /\ adb.adbPath \notin host.fs =>
              \A c \in Calls :
                  /\ call[c].status # "resolved"
                  /\ call[c].status = "rejected" =>
                        /\ call[c].error.name = "CommandError"
                        /\ Len(call[c].issued) = 1

C5_Witness ==
    /\ adb.state = "constructed"
    /\ options.customPath = << "mock-adb" >>
    /\ "mock-adb" \notin host.fs
    /\ \E c \in Calls : call[c].status = "rejected"

StartsWith(s, prefix) == Len(s) >= Len(prefix) /\ SubSeq(s, 1, Len(prefix)) = prefix

\* C6: once constructed, the path and timeout never change and existsSync is
\* never called again; every command is issued with that path and that timeout.
C6_ConfigurationFixed ==
    /\ [](adb.state = "constructed" =>
            \A c \in Calls : \A i \in 1..Len(call[c].issued) :
                /\ call[c].issued[i].timeout = adb.timeout
                /\ StartsWith(call[c].issued[i].command, "\"" \o adb.adbPath \o "\" "))
    /\ [][adb.state = "constructed" => (adb' = adb /\ existsChecked' = existsChecked)]_vars

C6_Witness ==
    /\ adb.state = "constructed"
    /\ adb.timeout = 5000
    /\ existsChecked # << >>
    /\ \E c \in Calls :
          /\ call[c].status = "pending"
          /\ Len(call[c].issued) = 3
          /\ call[c].issued[3].timeout = 5000

\* C9: no retry and no fallback: the commands an operation has issued are a
\* prefix of its command list (each at most once), the first executor failure
\* is its last command and rejects it, and the caller's error is the executor's.
C9_NoRetryErrorUnchanged ==
    \A c \in Calls :
        call[c].status # "idle" =>
            LET iss  == call[c].issued
                cmds == Commands(call[c].op, call[c].args)
            IN /\ Len(iss) <= Len(cmds)
               /\ \A i \in 1..Len(iss) :
                    /\ iss[i].command = CommandLine(cmds[i])
                    /\ iss[i].outcome = "failed" =>
                          /\ i = Len(iss)
                          /\ call[c].status = "rejected"
               /\ call[c].status = "rejected" =>
                    /\ iss[Len(iss)].outcome = "failed"
                    /\ call[c].error = iss[Len(iss)].raised
                    /\ call[c].error.name = "CommandError"
                    /\ call[c].error.code = << "COMMAND_FAILED" >>
                    /\ call[c].error.command = << iss[Len(iss)].command >>

C9_Witness ==
    \E c \in Calls :
        /\ call[c].op = "getNetworkInfo"
        /\ call[c].status = "rejected"
        /\ Len(call[c].issued) = 2
        /\ call[c].error.message = "error: device offline"

(***************************************************************************)
(* executeCommand on its own: every input of ExecInputs, applied once.     *)
(***************************************************************************)
StdoutAlphabet == {" ", "\n", "a"}

StderrChoices ==
    {"", " ", "Warning: slow transport\n", "warning: lower case\n",
     "error: device offline\n"}

ExecInputs ==
    [command : {"\"mock-adb\" devices -l", "\"/usr/bin/adb\" -s emulator-5554 shell getprop"},
     timeout : {5000, DefaultTimeout},
     p : [dur : Durations, exit : {0, 1},
          stdout : Strs(StdoutAlphabet, MaxOutLen),
          stderr : StderrChoices]]

\* The client part of the state while a function is checked on its own.
ClientAtRest ==
    /\ host = [isWindows |-> FALSE, LOCALAPPDATA |-> <<>>, ANDROID_HOME |-> <<>>,
               home |-> "/home/dev", fs |-> {}]
    /\ options = [customPath |-> <<>>, timeout |-> <<>>]
    /\ adb = Unconstructed
    /\ existsChecked = << >>
    /\ call = [c \in Calls |-> IdleCall]
    /\ remote = [q \in RemotePaths |-> << >>]
    /\ local = {}

InitExec ==
    /\ ClientAtRest
    /\ fnIn \in ExecInputs
    /\ fnOut = << >>

ExecuteCommandRuns ==
    /\ fnOut = << >>
    /\ fnOut' = << [proc |-> execAsync(fnIn.command, fnIn.timeout, fnIn.p),
                    res  |-> executeCommand(fnIn.command, fnIn.timeout, fnIn.p)] >>
    /\ UNCHANGED <<fnIn, host, options, adb, existsChecked, call, remote, local>>

NextExec == ExecuteCommandRuns

SpecExec == InitExec /\ [][NextExec]_vars

OutlivesTimeout(in) == in.p.dur > in.timeout

FailureMessage(in) == "Command failed: " \o in.command \o "\n" \o in.p.stderr

IsCommandFailed(res, message, command) ==
    /\ ~res.ok
    /\ res.value = ""
    /\ res.error.name = "CommandError"
    /\ res.error.code = << "COMMAND_FAILED" >>
    /\ res.error.command = << command >>
    /\ res.error.message = message

\* v is s without its leading and trailing whitespace.
IsTrimOf(v, s) ==
    \E i \in 1..(Len(s) + 1) : \E j \in 0..Len(s) :
        /\ v = SubSeq(s, i, j)
        /\ \A k \in 1..(i - 1) : IsSpace(SubSeq(s, k, k))
        /\ \A k \in (j + 1)..Len(s) : IsSpace(SubSeq(s, k, k))
        /\ v # "" => ~IsSpace(Head(v)) /\ ~IsSpace(SubSeq(v, Len(v), Len(v)))

\* C3 as stated: a process that outlives the timeout is killed and the call
\* rejects with an error of a timeout kind, distinct from the generic
\* command-failure kind (CommandError / COMMAND_FAILED), returning no stdout.
C3_TimeoutKindOriginal ==
    fnOut # << >> /\ OutlivesTimeout(fnIn) =>
        /\ fnOut[1].proc.killed
        /\ ~fnOut[1].res.ok
        /\ fnOut[1].res.value = ""
        /\ << fnOut[1].res.error.name, fnOut[1].res.error.code >>
              # << "CommandError", << "COMMAND_FAILED" >> >>

\* C3 amended: a process that outlives the (positive) timeout is killed and the
\* call rejects with the generic CommandError / COMMAND_FAILED, carrying the
\* command line and the message "Command failed: <cmd>\n<stderr>": there is no
\* timeout kind, and no stdout text reaches the caller.
C3_TimeoutIsCommandFailed ==
    fnOut # << >> /\ OutlivesTimeout(fnIn) =>
        /\ fnOut[1].proc.killed
        /\ IsCommandFailed(fnOut[1].res, FailureMessage(fnIn), fnIn.command)

C3_Witness ==
    /\ fnOut # << >>
    /\ OutlivesTimeout(fnIn)
    /\ fnIn.p.stdout = " a\n"
    /\ fnIn.p.exit = 0
    /\ ~fnOut[1].res.ok

\* C7: a nonzero exit, or an exit of zero with a non-empty stderr that does not
\* contain 'Warning', rejects with CommandError / COMMAND_FAILED carrying the full
\* command line and the raw diagnostic text (the stderr text in the second case).
C7_CommandFailed ==
    fnOut # << >> /\ ~OutlivesTimeout(fnIn) =>
        /\ fnIn.p.exit # 0 =>
              IsCommandFailed(fnOut[1].res, FailureMessage(fnIn), fnIn.command)
        /\ (fnIn.p.exit = 0 /\ fnIn.p.stderr # "" /\ ~includes(fnIn.p.stderr, "Warning")) =>
              IsCommandFailed(fnOut[1].res, fnIn.p.stderr, fnIn.command)

C7_Witness ==
    /\ fnOut # << >>
    /\ ~OutlivesTimeout(fnIn)
    /\ fnIn.p.exit = 0
    /\ fnIn.p.stderr = "error: device offline\n"
    /\ fnIn.p.stdout = "a"
    /\ fnOut[1].res.error.message = "error: device offline\n"

\* C8: the call returns a value exactly when the process exits zero within the
\* timeout and stderr is empty or contains 'Warning'; the value is stdout without
\* its leading and trailing whitespace, and the warning text is dropped.
C8_TrimmedStdout ==
    fnOut # << >> =>
        /\ fnOut[1].res.ok <=>
              /\ fnIn.p.exit = 0
              /\ ~OutlivesTimeout(fnIn)
              /\ fnIn.p.stderr = "" \/ includes(fnIn.p.stderr, "Warning")
        /\ fnOut[1].res.ok =>
              /\ IsTrimOf(fnOut[1].res.value, fnIn.p.stdout)
              /\ fnOut[1].res.error = NoError

C8_Witness ==
    /\ fnOut # << >>
    /\ fnIn.p.stderr = "Warning: slow transport\n"
    /\ fnIn.p.stdout = " a\n"
    /\ fnOut[1].res.ok
    /\ fnOut[1].res.value = "a"

(***************************************************************************)
(* getDevices on its own: device lists of a header and at most MaxLines    *)
(* lines, each a device line or a blank line, and the empty output.        *)
(***************************************************************************)
DeviceStates == {"device", "offline", "unauthorized", "connecting"}

\* The states 'adb devices' prints include some that DeviceState does not list.
PrintedStates == DeviceStates \cup {"recovery"}

\* What 'adb devices -l' prints after the state: the text, and the model and
\* product it names (<<>> when it names none).
Extras(text, model, product) == [text |-> text, model |-> model, product |-> product]

NoExtras == Extras("", << >>, << >>)

FullExtras == Extras(" product:redfin model:Pixel_5 transport_id:3", << "Pixel_5" >>, << "redfin" >>)

DeviceLine(serial, state, extras) ==
    [kind |-> "device", serial |-> serial, state |-> state,
     model |-> extras.model, product |-> extras.product,
     text |-> serial \o "\t" \o state \o extras.text]

BlankLine(text) ==
    [kind |-> "blank", serial |-> "", state |-> "", model |-> << >>, product |-> << >>,
     text |-> text]

LineChoices ==
    {DeviceLine(sn, st, ex) :
        sn \in {"emulator-5554", "192.168.0.7:5555"},
        st \in PrintedStates,
        ex \in {NoExtras, FullExtras}}
    \cup {DeviceLine("emulator-5554", "device", ex) :
            ex \in {Extras(" device:redfin transport_id:3", << >>, << >>),
                    Extras(" usb:1-4 model:Pixel_5 device:redfin", << "Pixel_5" >>, << >>),
                    Extras(" usb:1-4 product:redfin device:redfin", << >>, << "redfin" >>)}}
    \cup {BlankLine(""), BlankLine("  ")}

SeqsUpTo(S, n) == UNION {[1..k -> S] : k \in 0..n}

DeviceListInputs ==
    {[header |-> FALSE, lines |-> << >>]}
    \cup {[header |-> TRUE, lines |-> ls] : ls \in SeqsUpTo(LineChoices, MaxLines)}

RECURSIVE RenderLines(_)
RenderLines(ls) ==
    IF ls = << >> THEN "" ELSE ls[1].text \o "\n" \o RenderLines(Tail(ls))

\* The stdout of 'adb devices -l' for an input: the header, the lines, and the
\* empty line adb ends its list with.
Render(in) ==
    IF in.header THEN "List of devices attached\n" \o RenderLines(in.lines) \o "\n"
    ELSE ""

InitDevices ==
    /\ ClientAtRest
    /\ fnIn \in DeviceListInputs
    /\ fnOut = << >>

GetDevicesRuns ==
    /\ fnOut = << >>
    /\ LET x == execute([Unconstructed EXCEPT !.adbPath = "/usr/bin/adb",
                                              !.timeout = DefaultTimeout],
                        getDevices[1])
           r == executeCommand(x.command, x.timeout,
                               [dur |-> 100, exit |-> 0, stdout |-> Render(fnIn),
                                stderr |-> ""])
       IN fnOut' = << getDevicesResult(r.value) >>
    /\ UNCHANGED <<fnIn, host, options, adb, existsChecked, call, remote, local>>

NextDevices == GetDevicesRuns

SpecDevices == InitDevices /\ [][NextDevices]_vars

IsDeviceLine(l) == l.kind = "device"

\* C10: a header followed by N device lines (blank lines in between or not)
\* gives exactly N descriptors in line order, each with the line's first token
\* as its non-empty serialNumber and a state among device, offline,
\* unauthorized, connecting; a lone header or an empty output gives none.
C10_DeviceList ==
    fnOut # << >> =>
        LET devs == fnOut[1]
            exp  == SelectSeq(fnIn.lines, IsDeviceLine)
        IN /\ Len(devs) = Len(exp)
           /\ \A i \in 1..Len(devs) :
                /\ devs[i].serialNumber = exp[i].serial
                /\ devs[i].serialNumber # ""
                /\ devs[i].state # << >>
                /\ devs[i].state[1] \in DeviceStates

\* What the code does hold to: the count, the order, the serial numbers, and
\* the state copied from the line's second token.
DeviceListAsParsed ==
    fnOut # << >> =>
        LET devs == fnOut[1]
            exp  == SelectSeq(fnIn.lines, IsDeviceLine)
        IN /\ Len(devs) = Len(exp)
           /\ \A i \in 1..Len(devs) :
                /\ devs[i].serialNumber = exp[i].serial
                /\ devs[i].state = << exp[i].state >>

(***************************************************************************)
(* sanitizePath on its own: every path of PathInputs, applied once.        *)
(***************************************************************************)
MaxPathLen == 4     \* length of an enumerated path

PathAlphabet == {" ", "a", "b"}

PathInputs == Strs(PathAlphabet, MaxPathLen)

InitSanitize ==
    /\ ClientAtRest
    /\ fnIn \in PathInputs
    /\ fnOut = << >>

SanitizePathRuns ==
    /\ fnOut = << >>
    /\ fnOut' = << sanitizePath(fnIn) >>
    /\ UNCHANGED <<fnIn, host, options, adb, existsChecked, call, remote, local>>

NextSanitize == SanitizePathRuns

SpecSanitize == InitSanitize /\ [][NextSanitize]_vars

\* The path with a backslash put before each of its spaces.
RECURSIVE EachSpaceEscaped(_)
EachSpaceEscaped(path) ==
    IF path = "" THEN ""
    ELSE (IF Head(path) = " " THEN "\\ " ELSE Head(path)) \o EachSpaceEscaped(Tail(path))

\* The positions of the spaces of s that do not directly follow a backslash.
BareSpaces(s) ==
    {i \in 1..Len(s) : CharAt(s, i) = " " /\ (i = 1 \/ CharAt(s, i - 1) # "\\")}

\* C11: the sanitized path has every space preceded by exactly one backslash
\* and nothing else altered, added, removed or reordered; a path without
\* whitespace comes back unchanged.
C11_EverySpaceEscaped ==
    fnOut # << >> =>
        /\ fnOut[1] = EachSpaceEscaped(fnIn)
        /\ BareSpaces(fnOut[1]) = {}
        /\ (~includes(fnIn, " ")) => fnOut[1] = fnIn

\* What the code does hold to: one backslash before each run of spaces, so
\* only the first space of a run is escaped.
RECURSIVE RunsEscaped(_, _)
RunsEscaped(path, i) ==
    IF i > Len(path) THEN ""
    ELSE (IF CharAt(path, i) = " " /\ (i = 1 \/ CharAt(path, i - 1) # " ")
          THEN "\\" ELSE "") \o CharAt(path, i) \o RunsEscaped(path, i + 1)

SanitizedAsCoded ==
    fnOut # << >> => fnOut[1] = RunsEscaped(fnIn, 1)

(***************************************************************************)
(* Properties of the client, continued.                                    *)
(***************************************************************************)
\* C12 as first stated: takeBugReport is a composite operation that issues
\* three sequential commands: a capture to a fixed remote temporary path, a
\* transfer to the caller's local path, and the deletion of the remote file.
C12_BugReportComposite ==
    \A c \in Calls :
        (call[c].op = "takeBugReport" /\ call[c].status = "resolved") =>
            LET iss == call[c].issued
            IN /\ Len(iss) = 3
               /\ includes(iss[2].command, " pull ")
               /\ includes(iss[2].command, "\"" \o sanitizePath(call[c].args.path) \o "\"")
               /\ includes(iss[3].command, " shell rm ")

\* C12: takeBugReport issues exactly one command, bugreport with the quoted
\* sanitized local path, and settles with it; it touches no remote temporary
\* file and issues neither a transfer nor a deletion.
C12_BugReportSingleCommand ==
    /\ [](\A c \in Calls :
        call[c].op = "takeBugReport" =>
            LET iss == call[c].issued
                a   == call[c].args
            IN /\ Len(iss) = 1
               /\ iss[1].command =
                    CommandLine("-s " \o a.serialNumber \o " bugreport \""
                                    \o sanitizePath(a.path) \o "\"")
               /\ ~includes(iss[1].command, " pull ")
               /\ ~includes(iss[1].command, " shell rm ")
               /\ iss[1].outcome = "ok" <=> call[c].status = "resolved"
               /\ iss[1].outcome = "failed" <=> call[c].status = "rejected")
    /\ [][\A c \in Calls :
            call[c].op = "takeBugReport" => (remote' = remote /\ local' = local)]_vars

C12_Witness ==
    \E c \in Calls :
        /\ call[c].op = "takeBugReport"
        /\ call[c].status = "resolved"
        /\ Len(call[c].issued) = 1

\* The steps of call record cl whose process has not ended yet.
InFlight(cl) == {i \in 1..Len(cl.issued) : cl.issued[i].outcome = "running"}

\* C13: within one invocation at most one external process is in flight: the
\* only step that can be running is the last one issued, every earlier step has
\* exited successfully, and a step is added only in the very transition in which
\* the previous step's process ends.
C13_OneProcessInFlight ==
    /\ [](\A c \in Calls :
        LET cl == call[c]
        IN /\ Cardinality(InFlight(cl)) <= 1
           /\ InFlight(cl) \subseteq {Len(cl.issued)}
           /\ cl.status = "pending" <=> InFlight(cl) # {}
           /\ \A i \in 1..(Len(cl.issued) - 1) : cl.issued[i].outcome = "ok")
    /\ [][\A c \in Calls :
            LET n == Len(call[c].issued)
            IN (n >= 1 /\ Len(call[c].issued') > n) =>
                  /\ Len(call[c].issued') = n + 1
                  /\ call[c].issued[n].outcome = "running"
                  /\ call[c].issued'[n].outcome = "ok"]_vars

C13_Witness ==
    \E c \in Calls :
        /\ call[c].op \in {"takeScreenshot", "recordScreen"}
        /\ call[c].status = "pending"
        /\ Len(call[c].issued) = 3
        /\ call[c].issued[1].outcome = "ok"
        /\ call[c].issued[2].outcome = "ok"
        /\ InFlight(call[c]) = {3}

\* C14: the timeout belongs to each process, not to the operation: every step
\* is started with the full configured timeout however long the earlier steps
\* ran, a step that ended well ran no longer than that timeout on its own, and
\* an operation that resolved after k steps ran at most k times the timeout
\* (and can run longer than one timeout: C14_Witness).
C14_TimeoutPerProcess ==
    \A c \in Calls :
        LET cl == call[c]
            k  == Len(cl.issued)
        IN /\ \A i \in 1..k :
                /\ cl.issued[i].timeout = adb.timeout
                /\ cl.issued[i].outcome = "ok" => cl.issued[i].ran <= adb.timeout
           /\ cl.status = "resolved" => Elapsed(cl) <= k * adb.timeout

\* Two steps took 20 s each under a 30 s timeout, and the operation went on.
C14_Witness ==
    \E c \in Calls :
        /\ call[c].op = "takeScreenshot"
        /\ call[c].status = "resolved"
        /\ Len(call[c].issued) = 3
        /\ adb.timeout = DefaultTimeout
        /\ Elapsed(call[c]) = 3 * 20000
        /\ Elapsed(call[c]) > adb.timeout

\* C15: a value-returning operation resolves only when every one of its
\* commands succeeded, and then the texts it parses are exactly the texts those
\* commands returned, one per command; as soon as a command fails it rejects
\* with that command's error, having parsed nothing of a later command: no
\* partial or default result is returned for a failed command.
C15_NoPartialResult ==
    \A c \in Calls :
        LET cl   == call[c]
            k    == Len(cl.issued)
            cmds == Commands(cl.op, cl.args)
        IN cl.op \in ValueOps =>
             /\ cl.status = "resolved" <=>
                   (k = Len(cmds) /\ \A i \in 1..k : cl.issued[i].outcome = "ok")
             /\ cl.status = "resolved" =>
                   /\ Len(cl.outputs) = Len(cmds)
                   /\ cl.error = NoError
                   /\ \A i \in 1..k : cl.issued[i].raised = NoError
             /\ cl.status = "rejected" <=>
                   (\E i \in 1..k : cl.issued[i].outcome = "failed")
             /\ cl.status = "rejected" =>
                   /\ cl.error = cl.issued[k].raised
                   /\ cl.error.name = "CommandError"
                   /\ Len(cl.outputs) = k - 1
                   /\ Len(cl.outputs) < Len(cmds)

\* getNetworkInfo rejected by its second command although the first succeeded.
C15_Witness ==
    \E c \in Calls :
        /\ call[c].op = "getNetworkInfo"
        /\ call[c].status = "rejected"
        /\ Len(call[c].issued) = 2
        /\ call[c].issued[1].outcome = "ok"
        /\ Len(call[c].outputs) = 1

\* The error kinds that a call record shows: the call's own and its steps'.
RaisedKinds(cl) ==
    {cl.error.name} \cup {cl.issued[i].raised.name : i \in 1..Len(cl.issued)}

IsDigit(ch) == ch \in {"0", "1", "2", "3", "4", "5", "6", "7", "8", "9"}

DigitValue(ch) ==
    CASE ch = "0" -> 0 [] ch = "1" -> 1 [] ch = "2" -> 2 [] ch = "3" -> 3
      [] ch = "4" -> 4 [] ch = "5" -> 5 [] ch = "6" -> 6 [] ch = "7" -> 7
      [] ch = "8" -> 8 [] ch = "9" -> 9

\* Number(text) for a text of decimal digits.
RECURSIVE Number(_)
Number(digits) ==
    IF digits = "" THEN 0
    ELSE 10 * Number(SubSeq(digits, 1, Len(digits) - 1))
            + DigitValue(CharAt(digits, Len(digits)))

\* The end of the maximal run of digits of s that starts at position i.
DigitsEnd(s, i) ==
    LET stops == {j \in i..(Len(s) + 1) : j = Len(s) + 1 \/ ~IsDigit(CharAt(s, j))}
    IN Nth(stops, 1) - 1

\* output.match(/<label>(\d+)/)?.[1]: the digits of the leftmost place where
\* the label is directly followed by a digit; <<>> when there is none.
matchDigits(output, label) ==
    LET n    == Len(label)
        hits == {i \in 1..(Len(output) - n) :
                    /\ SubSeq(output, i, i + n - 1) = label
                    /\ IsDigit(CharAt(output, i + n))}
    IN IF hits = {} THEN << >>
       ELSE LET i == Nth(hits, 1)
            IN << SubSeq(output, i + n, DigitsEnd(output, i + n)) >>

\* n / 10 as the decimal number int.frac (253 / 10 is 25.3).
Tenth(n) == [int |-> n \div 10, frac |-> n % 10]

\* Variant: USB is looked at before AC.
powerSourceUsbFirst(output) ==
    IF includes(output, "USB powered: true") THEN "usb"
    ELSE IF includes(output, "AC powered: true") THEN "ac"
    ELSE IF includes(output, "Wireless powered: true") THEN "wireless"
    ELSE "none"

powerSource(output) ==
    IF includes(output, "AC powered: true") THEN "ac"
    ELSE IF includes(output, "USB powered: true") THEN "usb"
    ELSE IF includes(output, "Wireless powered: true") THEN "wireless"
    ELSE "none"

\* Variant: the temperature is returned in the unit the device reports.
getBatteryInfoResultRawTemperature(output) ==
    LET level == matchDigits(output, "level: ")
        temp  == matchDigits(output, "temperature: ")
    IN [level       |-> IF level = << >> THEN 0 ELSE Number(level[1]),
        temperature |-> [int |-> IF temp = << >> THEN 0 ELSE Number(temp[1]), frac |-> 0],
        isCharging  |-> includes(output, "status: 2") \/ includes(output, "status: 5"),
        powerSource |-> powerSource(output)]

\* The value getBatteryInfo resolves with, given the text execute returned.
getBatteryInfoResult(output) ==
    LET level == matchDigits(output, "level: ")
        temp  == matchDigits(output, "temperature: ")
    IN [level       |-> IF level = << >> THEN 0 ELSE Number(level[1]),
        temperature |-> Tenth(IF temp = << >> THEN 0 ELSE Number(temp[1])),
        isCharging  |-> includes(output, "status: 2") \/ includes(output, "status: 5"),
        powerSource |-> powerSource(output)]

(***************************************************************************)
(* getBatteryInfo's parsing on its own: every text of BatteryInputs.       *)
(***************************************************************************)
MaxBatteryLines == 3    \* lines after the header of an enumerated battery dump

\* A line of 'dumpsys battery': its key, the value as printed, and the number
\* the printed value stands for (0 for a value that is not a number).
BatteryLine(key, val, num) == [key |-> key, val |-> val, num |-> num]

BatteryLineChoices ==
    {BatteryLine("AC powered", "true", 0), BatteryLine("AC powered", "false", 0),
     BatteryLine("USB powered", "true", 0), BatteryLine("Wireless powered", "true", 0),
     BatteryLine("status", "2", 2), BatteryLine("status", "3", 3),
     BatteryLine("status", "5", 5),
     BatteryLine("level", "87", 87), BatteryLine("level", "5", 5),
     BatteryLine("temperature", "253", 253), BatteryLine("temperature", "30", 30)}

BatteryInputs == SeqsUpTo(BatteryLineChoices, MaxBatteryLines)

RECURSIVE RenderBatteryLines(_)
RenderBatteryLines(ls) ==
    IF ls = << >> THEN ""
    ELSE "  " \o ls[1].key \o ": " \o ls[1].val \o "\n" \o RenderBatteryLines(Tail(ls))

\* The stdout of 'dumpsys battery' for an input.
RenderBattery(ls) == "Current Battery Service state:\n" \o RenderBatteryLines(ls)

InitBattery ==
    /\ ClientAtRest
    /\ fnIn \in BatteryInputs
    /\ fnOut = << >>

GetBatteryInfoRuns ==
    /\ fnOut = << >>
    /\ LET x == execute([Unconstructed EXCEPT !.adbPath = "/usr/bin/adb",
                                              !.timeout = DefaultTimeout],
                        getBatteryInfo("emulator-5554")[1])
           r == executeCommand(x.command, x.timeout,
                               [dur |-> 100, exit |-> 0, stdout |-> RenderBattery(fnIn),
                                stderr |-> ""])
       IN fnOut' = << getBatteryInfoResult(r.value) >>
    /\ UNCHANGED <<fnIn, host, options, adb, existsChecked, call, remote, local>>

NextBattery == GetBatteryInfoRuns

SpecBattery == InitBattery /\ [][NextBattery]_vars

\* The lines of ls with the given key, in their order.
WithKey(ls, key) == SelectSeq(ls, LAMBDA l : l.key = key)

Has(ls, key, val) == \E i \in 1..Len(ls) : ls[i].key = key /\ ls[i].val = val

\* C18: the level is the integer of the first level line, the temperature the
\* integer of the first temperature line divided by 10, isCharging is true
\* exactly when the text has status 2 or status 5, and a missing level or
\* temperature gives 0; level 87, temperature 253, status 2 gives 87, 25.3, true.
C18_BatteryNumbers ==
    fnOut # << >> =>
        LET res    == fnOut[1]
            levels == WithKey(fnIn, "level")
            temps  == WithKey(fnIn, "temperature")
        IN /\ res.level = IF levels = << >> THEN 0 ELSE levels[1].num
           /\ temps = << >> => res.temperature = [int |-> 0, frac |-> 0]
           /\ temps # << >> =>
                 10 * res.temperature.int + res.temperature.frac = temps[1].num
           /\ res.temperature.frac \in 0..9
           /\ res.isCharging <=> (Has(fnIn, "status", "2") \/ Has(fnIn, "status", "5"))
           /\ fnIn = << BatteryLine("level", "87", 87),
                        BatteryLine("temperature", "253", 253),
                        BatteryLine("status", "2", 2) >>
                 => /\ res.level = 87
                    /\ res.temperature = [int |-> 25, frac |-> 3]
                    /\ res.isCharging

\* Two level lines: the first one counts; status 5; no temperature.
C18_Witness ==
    /\ fnOut # << >>
    /\ fnIn = << BatteryLine("level", "5", 5), BatteryLine("status", "5", 5),
                 BatteryLine("level", "87", 87) >>
    /\ fnOut[1].level = 5
    /\ fnOut[1].isCharging
    /\ fnOut[1].temperature = [int |-> 0, frac |-> 0]

\* C19: the power source is 'ac' when the text reports AC powered true,
\* otherwise 'usb' when USB powered true, otherwise 'wireless' when Wireless
\* powered true, otherwise 'none': of several sources reported true the
\* earliest in this order is returned, wherever their lines stand in the text.
C19_PowerSourceOrder ==
    fnOut # << >> =>
        LET src == fnOut[1].powerSource
            ac  == Has(fnIn, "AC powered", "true")
            usb == Has(fnIn, "USB powered", "true")
            wl  == Has(fnIn, "Wireless powered", "true")
        IN /\ src \in {"ac", "usb", "wireless", "none"}
           /\ src = "ac" <=> ac
           /\ src = "usb" <=> (~ac /\ usb)
           /\ src = "wireless" <=> (~ac /\ ~usb /\ wl)
           /\ src = "none" <=> (~ac /\ ~usb /\ ~wl)

\* Wireless, USB and AC all reported true, in that order of lines: 'ac'.
C19_Witness ==
    /\ fnOut # << >>
    /\ fnIn = << BatteryLine("Wireless powered", "true", 0),
                 BatteryLine("USB powered", "true", 0),
                 BatteryLine("AC powered", "true", 0) >>
    /\ fnOut[1].powerSource = "ac"

(***************************************************************************)
(* adb.ts: what getDeviceProperties makes of the text of 'getprop'.        *)
(***************************************************************************)
\* The first position from `from` on where s has the character ch; 0 if none.
NextAt(s, ch, from) ==
    LET at == {j \in from..Len(s) : CharAt(s, j) = ch}
    IN IF at = {} THEN 0 ELSE Nth(at, 1)

\* /\[([^\]]+)\]: \[([^\]]*)\]/ tried at position i: the key runs to the first
\* "]" (and is not empty), "]: [" follows, and the value runs to the next "]".
propMatchAt(s, i) ==
    LET none == [ok |-> FALSE, key |-> "", value |-> "", end |-> 0]
        j    == NextAt(s, "]", i + 1)
        m    == NextAt(s, "]", j + 4)
    IN IF CharAt(s, i) # "[" \/ j = 0 \/ j = i + 1 THEN none
       ELSE IF j + 3 > Len(s) THEN none
       ELSE IF SubSeq(s, j, j + 3) # "]: [" \/ m = 0 THEN none
       ELSE [ok |-> TRUE, key |-> SubSeq(s, i + 1, j - 1),
             value |-> SubSeq(s, j + 4, m - 1), end |-> m]

\* output.matchAll(/.../g): the matches from left to right, each search
\* starting after the end of the previous match.
RECURSIVE matchAll(_, _)
matchAll(s, from) ==
    LET hits == {i \in from..Len(s) : propMatchAt(s, i).ok}
    IN IF hits = {} THEN << >>
       ELSE LET m == propMatchAt(s, Nth(hits, 1))
            IN << m >> \o matchAll(s, m.end + 1)

\* for (const [, key, value] of matches) props[key] = value
forOfMatches(matches) ==
    LET keys == {matches[i].key : i \in 1..Len(matches)}
        last(k) == Nth({i \in 1..Len(matches) : matches[i].key = k},
                       Cardinality({i \in 1..Len(matches) : matches[i].key = k}))
    IN [k \in keys |-> matches[last(k)].value]

\* The named fields of the result and the getprop key each is read from.
WellKnownKey ==
    [androidVersion   |-> "ro.build.version.release",
     sdkVersion       |-> "ro.build.version.sdk",
     model            |-> "ro.product.model",
     manufacturer     |-> "ro.product.manufacturer",
     brand            |-> "ro.product.brand",
     screenDensity    |-> "ro.sf.lcd_density",
     screenResolution |-> "ro.product.screen.resolution",
     cpuAbi           |-> "ro.product.cpu.abi"]

\* The value getDeviceProperties resolves with, given the text execute
\* returned: { <named fields>, ...props }, where a later property of an object
\* literal replaces an earlier one of the same name.
getDevicePropertiesResult(output) ==
    LET props == forOfMatches(matchAll(output, 1))
        named == [f \in DOMAIN WellKnownKey |->
                    IF WellKnownKey[f] \in DOMAIN props THEN props[WellKnownKey[f]] ELSE ""]
    IN [n \in DOMAIN named \cup DOMAIN props |->
            IF n \in DOMAIN props THEN props[n] ELSE named[n]]

(***************************************************************************)
(* getDeviceProperties' parsing on its own: every text of PropInputs.      *)
(***************************************************************************)
MaxProps == 3       \* lines of an enumerated getprop output

PropLineChoices ==
    {[key |-> "ro.build.version.release", value |-> "14"],
     [key |-> "ro.product.model", value |-> "Pixel 5"],
     [key |-> "ro.product.brand", value |-> ""],
     [key |-> "persist.sys.timezone", value |-> "Europe/Berlin"],
     [key |-> "DEVICE_PROVISIONED", value |-> "1"],
     [key |-> "model", value |-> "x"]}

\* getprop prints each property once.
PropInputs ==
    {ls \in SeqsUpTo(PropLineChoices, MaxProps) :
        \A i, j \in 1..Len(ls) : i # j => ls[i].key # ls[j].key}

RECURSIVE RenderProps(_)
RenderProps(ls) ==
    IF ls = << >> THEN ""
    ELSE "[" \o ls[1].key \o "]: [" \o ls[1].value \o "]\n" \o RenderProps(Tail(ls))

InitProps ==
    /\ ClientAtRest
    /\ fnIn \in PropInputs
    /\ fnOut = << >>

GetDevicePropertiesRuns ==
    /\ fnOut = << >>
    /\ LET x == execute([Unconstructed EXCEPT !.adbPath = "/usr/bin/adb",
                                              !.timeout = DefaultTimeout],
                        getDeviceProperties("emulator-5554")[1])
           r == executeCommand(x.command, x.timeout,
                               [dur |-> 100, exit |-> 0, stdout |-> RenderProps(fnIn),
                                stderr |-> ""])
       IN fnOut' = << getDevicePropertiesResult(r.value) >>
    /\ UNCHANGED <<fnIn, host, options, adb, existsChecked, call, remote, local>>

NextProps == GetDevicePropertiesRuns

SpecProps == InitProps /\ [][NextProps]_vars

\* The value the getprop output gives for key: <<>> when the key is not in it.
Printed(ls, key) ==
    LET at == {i \in 1..Len(ls) : ls[i].key = key}
    IN IF at = {} THEN << >> ELSE << ls[CHOOSE i \in at : TRUE].value >>

\* C20: each named field of the result equals the value of its well-known key
\* when the output has that key and the empty string otherwise (androidVersion
\* is the value of ro.build.version.release: 14), and every other key of the
\* output is in the result under its own name with its value.
C20_NamedFieldsAndOthers ==
    fnOut # << >> =>
        LET res == fnOut[1]
        IN /\ \A f \in DOMAIN WellKnownKey :
                /\ f \in DOMAIN res
                /\ res[f] = orEmpty(Printed(fnIn, WellKnownKey[f]))
           /\ \A i \in 1..Len(fnIn) :
                /\ fnIn[i].key \in DOMAIN res
                /\ res[fnIn[i].key] = fnIn[i].value
           /\ Printed(fnIn, "ro.build.version.release") = << "14" >>
                 => res["androidVersion"] = "14"

\* What the code does hold to: every key of the output is in the result with
\* its value, and a named field has the value of its well-known key (or the
\* empty string) unless the output has a key of the field's own name.
PropertiesAsParsed ==
    fnOut # << >> =>
        LET res == fnOut[1]
        IN /\ DOMAIN res = DOMAIN WellKnownKey \cup {fnIn[i].key : i \in 1..Len(fnIn)}
           /\ \A i \in 1..Len(fnIn) : res[fnIn[i].key] = fnIn[i].value
           /\ \A f \in DOMAIN WellKnownKey :
                Printed(fnIn, f) = << >> =>
                    res[f] = orEmpty(Printed(fnIn, WellKnownKey[f]))

(***************************************************************************)
(* adb.ts: what getPackageInfo makes of the text of 'dumpsys package'.     *)
(***************************************************************************)
\* The end of the maximal run of non-whitespace of s that starts at position i.
NonSpaceEnd(s, i) ==
    LET stops == {j \in i..(Len(s) + 1) : j = Len(s) + 1 \/ IsSpace(CharAt(s, j))}
    IN Nth(stops, 1) - 1

\* output.match(/<label>([^\s]+)/)?.[1] ?? '': the non-whitespace text at the
\* leftmost place where the label is directly followed by a character that is
\* not whitespace; '' when there is none.
matchNonSpace(output, label) ==
    LET n    == Len(label)
        hits == {i \in 1..(Len(output) - n) :
                    /\ SubSeq(output, i, i + n - 1) = label
                    /\ ~IsSpace(CharAt(output, i + n))}
    IN IF hits = {} THEN ""
       ELSE LET i == Nth(hits, 1)
            IN SubSeq(output, i + n, NonSpaceEnd(output, i + n))

\* Variant: the version code is looked for only once a version name was found.
getPackageInfoResultCodeAfterName(packageName, output) ==
    LET versionName == matchNonSpace(output, "versionName=")
    IN [packageName |-> packageName,
        versionName |-> versionName,
        versionCode |-> IF versionName = "" THEN ""
                        ELSE matchNonSpace(output, "versionCode=")]

\* The value getPackageInfo resolves with, given the text execute returned.
getPackageInfoResult(packageName, output) ==
    [packageName |-> packageName,
     versionName |-> matchNonSpace(output, "versionName="),
     versionCode |-> matchNonSpace(output, "versionCode=")]

(***************************************************************************)
(* getPackageInfo's parsing on its own: every text of PackageInputs.       *)
(***************************************************************************)
MaxPackageLines == 3    \* lines of an enumerated package dump

\* A line of 'dumpsys package': the field it carries (if any), the field's
\* value, and the line as printed.
PackageLine(key, val, text) == [key |-> key, val |-> val, text |-> text]

PackageLineChoices ==
    {PackageLine("versionName", "1.2.3", "versionName=1.2.3"),
     PackageLine("versionName", "2.0-beta", "versionName=2.0-beta"),
     PackageLine("versionCode", "42", "versionCode=42 minSdk=21 targetSdk=33"),
     PackageLine("versionCode", "7", "versionCode=7 minSdk=21"),
     PackageLine("", "", "flags=[ HAS_CODE ALLOW_BACKUP ]"),
     PackageLine("", "", "codePath=/data/app/com.example.app")}

PackageInputs ==
    [packageName : {"com.example.app", "org.demo"},
     lines : SeqsUpTo(PackageLineChoices, MaxPackageLines)]

RECURSIVE RenderPackageLines(_)
RenderPackageLines(ls) ==
    IF ls = << >> THEN ""
    ELSE "    " \o ls[1].text \o "\n" \o RenderPackageLines(Tail(ls))

\* The stdout of 'dumpsys package <name>' for an input.
RenderPackage(in) ==
    "Packages:\n  Package [" \o in.packageName \o "] (a1b2c3):\n"
        \o RenderPackageLines(in.lines)

InitPackage ==
    /\ ClientAtRest
    /\ fnIn \in PackageInputs
    /\ fnOut = << >>

GetPackageInfoRuns ==
    /\ fnOut = << >>
    /\ LET x == execute([Unconstructed EXCEPT !.adbPath = "/usr/bin/adb",
                                              !.timeout = DefaultTimeout],
                        getPackageInfo("emulator-5554", fnIn.packageName)[1])
           r == executeCommand(x.command, x.timeout,
                               [dur |-> 100, exit |-> 0, stdout |-> RenderPackage(fnIn),
                                stderr |-> ""])
       IN fnOut' = << getPackageInfoResult(fnIn.packageName, r.value) >>
    /\ UNCHANGED <<fnIn, host, options, adb, existsChecked, call, remote, local>>

NextPackage == GetPackageInfoRuns

SpecPackage == InitPackage /\ [][NextPackage]_vars

\* The value of the first line of ls that carries the field; "" without one.
FirstOf(ls, key) ==
    LET with == WithKey(ls, key)
    IN IF with = << >> THEN "" ELSE with[1].val

\* C21: versionName and versionCode come from two independent searches: each
\* is the non-whitespace text after its first token, or the empty string when
\* the token is absent, whether or not the other token is there; packageName
\* is the caller's argument.
C21_IndependentSearches ==
    fnOut # << >> =>
        /\ fnOut[1].packageName = fnIn.packageName
        /\ fnOut[1].versionName = FirstOf(fnIn.lines, "versionName")
        /\ fnOut[1].versionCode = FirstOf(fnIn.lines, "versionCode")

\* A version code without a version name; the second code line does not count.
C21_Witness ==
    /\ fnOut # << >>
    /\ WithKey(fnIn.lines, "versionName") = << >>
    /\ Len(WithKey(fnIn.lines, "versionCode")) = 2
    /\ fnOut[1].versionCode = "42"
    /\ fnOut[1].versionName = ""
    /\ fnOut[1].packageName = "org.demo"

(***************************************************************************)
(* The path resolver on its own: every host of ResolverInputs: a      *)
(* platform with some of the candidate locations, and possibly a file      *)
(* elsewhere, existing.                                                     *)
(***************************************************************************)
MaxExisting == 3    \* how many of the candidate locations exist at once

ResolverInputs ==
    UNION {{[h EXCEPT !.fs = f] :
              f \in {g \in SUBSET (Range(getPotentialADBPaths(h)) \cup {"/opt/tools/adb"}) :
                       Cardinality(g) <= MaxExisting}} :
           h \in PlatformChoices}

InitResolver ==
    /\ ClientAtRest
    /\ fnIn \in ResolverInputs
    /\ fnOut = << >>

FindADBPathRuns ==
    /\ fnOut = << >>
    /\ fnOut' = << findADBPath(fnIn) >>
    /\ UNCHANGED <<fnIn, host, options, adb, existsChecked, call, remote, local>>

NextResolver == FindADBPathRuns

SpecResolver == InitResolver /\ [][NextResolver]_vars

\* The well-known locations of the two platforms, in the order they are tried,
\* for the home directories and variables of PlatformChoices.
WellKnownLocations(h) ==
    IF h.isWindows
    THEN << "C:\\Users\\dev\\AppData\\Local\\Android\\Sdk\\platform-tools\\adb.exe",
            "C:\\Android\\sdk\\platform-tools\\adb.exe",
            "C:\\Users\\dev\\AppData\\Local\\Android\\Sdk\\platform-tools\\adb.exe" >>
    ELSE << "/usr/local/bin/adb",
            "/usr/bin/adb",
            "/home/dev/Library/Android/sdk/platform-tools/adb",
            "/home/dev/Android/Sdk/platform-tools/adb" >>

FromAndroidHome(h) ==
    IF h.ANDROID_HOME = << >> THEN << >>
    ELSE IF h.isWindows THEN << "D:\\android-sdk\\platform-tools\\adb.exe" >>
    ELSE << "/opt/android-sdk/platform-tools/adb" >>

C23_ConfiguredTimeout ==
    LET configured == IF options.timeout = << >> THEN 30000 ELSE options.timeout[1]
    IN /\ adb.state = "constructed" => adb.timeout = configured
       /\ \A c \in Calls :
            \A i \in 1..Len(call[c].issued) : call[c].issued[i].timeout = configured

\* A three-command operation that ran with a supplied timeout of 5000 ms.
C23_Witness ==
    \E c \in Calls :
        /\ options.timeout = << 5000 >>
        /\ call[c].op = "recordScreen"
        /\ Len(call[c].issued) = 3
        /\ \A i \in 1..3 : call[c].issued[i].timeout = 5000

(***************************************************************************)
(* Several callers on one client: takeScreenshot for the same device may   *)
(* be in flight on every caller slot at once.  The client is constructed   *)
(* with its defaults on a host that has /usr/bin/adb; each caller has its  *)
(* own local output path; processes end quickly with exit code 0 or 1.     *)
(***************************************************************************)
SharedHost ==
    [isWindows |-> FALSE, LOCALAPPDATA |-> << >>, ANDROID_HOME |-> << >>,
     home |-> "/home/dev", fs |-> {"/usr/bin/adb"}]

QuietBehaviours ==
    {p \in ProcBehaviours : p.dur = 100 /\ p.stdout = "" /\ p.stderr = ""}

\* The arguments of caller c's takeScreenshot.
ShotArgs(c) == [BaseArgs EXCEPT !.path = "shot" \o ToString(c) \o ".png"]

InitConcurrent ==
    /\ host = SharedHost
    /\ options = [customPath |-> << >>, timeout |-> << >>]
    /\ adb = constructor(options, host).adb
    /\ existsChecked = constructor(options, host).checked
    /\ call = [c \in Calls |-> IdleCall]
    /\ remote = [q \in RemotePaths |-> << >>]
    /\ local = {}
    /\ fnIn = << >>
    /\ fnOut = << >>

NextConcurrent ==
    \/ \E c \in Calls : Invoke(c, "takeScreenshot", ShotArgs(c))
    \/ \E c \in Calls : \E p \in QuietBehaviours : ProcessEnds(c, p)
    \/ \E c \in Calls : Settle(c)

SpecConcurrent == InitConcurrent /\ [][NextConcurrent]_vars

\* The local file at caller c's output path: <<>> or <<file>>.
LocalFileOf(c) ==
    LET fs == {f \in local : f.path = sanitizePath(call[c].args.path)}
    IN IF fs = {} THEN << >> ELSE << CHOOSE f \in fs : TRUE >>

\* C24: when takeScreenshot calls for the same device are in flight at once,
\* each call's transfer step transfers the remote file written by its own
\* capture step: while a call's transfer is in flight the remote temporary
\* file is the one this call captured, and once the transfer has succeeded the
\* call's local file holds this call's capture.
C24_OwnCaptureTransferred ==
    \A c \in Calls :
        LET cl == call[c]
        IN (cl.op = "takeScreenshot" /\ Len(cl.issued) >= 2) =>
             /\ cl.issued[2].outcome = "running" => remote[ScreenshotTemp] = << c >>
             /\ cl.issued[2].outcome = "ok" =>
                   /\ LocalFileOf(c) # << >>
                   /\ LocalFileOf(c)[1].content = c

\* What the code does hold to: a transfer that succeeded wrote the caller's
\* file with a capture of one of the callers, not necessarily its own.
TransferredSomeCapture ==
    \A c \in Calls :
        LET cl == call[c]
        IN (cl.op = "takeScreenshot" /\ Len(cl.issued) >= 2
                /\ cl.issued[2].outcome = "ok") =>
             /\ LocalFileOf(c) # << >>
             /\ LocalFileOf(c)[1].content \in Calls

\* C25: takeScreenshot resolves exactly when all three of its commands
\* succeeded; when capture and transfer succeeded and the cleanup fails it
\* rejects with the cleanup command's error, the local file is there, and no
\* step of the client ever removes a local file.
C25_CleanupFailureRejects ==
    /\ [](\A c \in Calls :
            LET cl == call[c]
                k  == Len(cl.issued)
            IN cl.op = "takeScreenshot" =>
                 /\ cl.status = "resolved" <=>
                       (k = 3 /\ \A i \in 1..3 : cl.issued[i].outcome = "ok")
                 /\ (k = 3 /\ cl.issued[3].outcome = "failed") =>
                       /\ cl.status = "rejected"
                       /\ cl.error = cl.issued[3].raised
                       /\ cl.error.name = "CommandError"
                       /\ cl.error.command =
                             << CommandLine("-s " \o cl.args.serialNumber
                                                \o " shell rm /sdcard/screenshot.png") >>
                       /\ \E f \in local : f.path = sanitizePath(cl.args.path))
    /\ [][\A f \in local : \E g \in local' : g.path = f.path]_vars

C25_Witness ==
    \E c \in Calls :
        /\ call[c].op = "takeScreenshot"
        /\ call[c].status = "rejected"
        /\ Len(call[c].issued) = 3
        /\ call[c].issued[1].outcome = "ok"
        /\ call[c].issued[2].outcome = "ok"
        /\ call[c].issued[3].outcome = "failed"
        /\ \E f \in local : f.path = "my\\ shot.png"

\* C26: restartServer issues kill-server and then start-server, neither with a
\* device selector; start-server is issued only once kill-server has succeeded,
\* and a failed kill-server rejects the operation with its error, start-server
\* never being issued.
C26_KillThenStart ==
    \A c \in Calls :
        LET cl  == call[c]
            iss == cl.issued
        IN cl.op = "restartServer" =>
             /\ Len(iss) \in {1, 2}
             /\ iss[1].command = "\"" \o adb.adbPath \o "\" kill-server"
             /\ Len(iss) = 2 =>
                   /\ iss[2].command = "\"" \o adb.adbPath \o "\" start-server"
                   /\ iss[1].outcome = "ok"
             /\ \A i \in 1..Len(iss) : ~includes(iss[i].command, " -s ")
             /\ iss[1].outcome = "failed" =>
                   /\ Len(iss) = 1
                   /\ cl.status = "rejected"
                   /\ cl.error = iss[1].raised
                   /\ cl.error.command = << iss[1].command >>
             /\ cl.status = "resolved" =>
                   (Len(iss) = 2 /\ iss[2].outcome = "ok")

\* kill-server failed: rejected after one command.
C26_Witness ==
    \E c \in Calls :
        /\ call[c].op = "restartServer"
        /\ call[c].status = "rejected"
        /\ Len(call[c].issued) = 1
        /\ call[c].issued[1].outcome = "failed"
        /\ includes(call[c].issued[1].command, "kill-server")

(***************************************************************************)
(* Properties of the device list, continued (under SpecDevices).           *)
(***************************************************************************)
\* C27: for each device line, model is the value of the line's model: token
\* and product the value of its product: token when the line has one, the
\* field is undefined when it has none, and tokens with another key (device:,
\* transport_id:, usb:) leave both fields alone.
C27_ModelAndProduct ==
    fnOut # << >> =>
        LET devs == fnOut[1]
            exp  == SelectSeq(fnIn.lines, IsDeviceLine)
        IN /\ Len(devs) = Len(exp)
           /\ \A i \in 1..Len(devs) :
                /\ devs[i].model = exp[i].model
                /\ devs[i].product = exp[i].product

\* A line with device: and a model but no product, after a line without tokens.
C27_Witness ==
    /\ fnOut # << >>
    /\ Len(fnOut[1]) = 2
    /\ fnOut[1][1].model = << >>
    /\ fnOut[1][1].product = << >>
    /\ fnOut[1][2].model = << "Pixel_5" >>
    /\ fnOut[1][2].product = << >>
    /\ includes(fnIn.lines[2].text, "device:redfin")
=============================================================================
